---------------------------- MODULE Spec2Model ----------------------------
(***************************************************************************)
(* State-machine model of the myFlix REST server (src/index.js).           *)
(*                                                                         *)
(* The state is the content of the two collections the routes work on      *)
(* (Users, Movies), the registrations that have passed their duplicate     *)
(* lookup and still wait for their insert, and the outcome of the request  *)
(* that was handled last.  One action stands for one route handler; a      *)
(* handler that makes a single repository call is one atomic step, the     *)
(* registration handler (findOne, then create inside the callback) is two. *)
(* Every repository call may fail, which is an input of the action.        *)
(*                                                                         *)
(* Strings whose characters matter (userName, password, email) are         *)
(* sequences of one-character strings.  A stored document keeps its        *)
(* position in the collection: findOne / findOneAndUpdate / findOneAndRemove*)
(* address the first document, in insertion order, that matches the filter.*)
(* The Birthday field is read and written by no route logic other than a   *)
(* plain copy and is left out.  The routes that touch no collection ("/",  *)
(* "/documentation", "/secreturl") and the guarded                         *)
(* PUT /users/:userName/:MovieID, whose filter and update name fields the  *)
(* User documents do not have, are not modelled.                           *)
(***************************************************************************)
EXTENDS Naturals, Sequences, FiniteSets

VARIABLES users, movies, pending, nextId, nreq, lastOp, last

vars == <<users, movies, pending, nextId, nreq, lastOp, last>>

\* Number of requests the server receives in one run.
MaxRequests == 4

---------------------------------------------------------------------------
\* Input alphabets

alice == <<"a", "l", "i", "c", "e">>
bobby == <<"b", "o", "b", "b", "y">>
bob == <<"b", "o", "b">>
a_ice == <<"a", "_", "i", "c", "e">>
hunter2 == <<"h", "2">>
goodMail == <<"a", "@", "b", ".", "c">>
badMail == <<"a", "b">>

\* Request bodies {userName, password, email} a client may send.
Bodies ==
  { [userName |-> alice, password |-> hunter2, email |-> goodMail],
    [userName |-> bobby, password |-> hunter2, email |-> goodMail],
    [userName |-> bob,   password |-> hunter2, email |-> goodMail],
    [userName |-> alice, password |-> <<>>,    email |-> goodMail],
    [userName |-> a_ice, password |-> hunter2, email |-> badMail],
    [userName |-> <<>>,  password |-> <<>>,    email |-> <<>>] }

\* Bodies of profile updates: well-formed ones (the route validates nothing).
UpdateBodies == { b \in Bodies : b.password = hunter2 /\ b.email = goodMail
                                  /\ b.userName \in {alice, bobby} }

\* The plaintext passwords clients supply in request bodies.
Plaintexts == { b.password : b \in Bodies }

\* :Username / :userName route parameters.
NameParams == {alice, bobby}

\* :MovieID / :title parameters of the favourites routes.
MovieRefs == {"m1", "m2"}

\* Bearer credentials a request may carry.
Credentials == {"valid", "missing"}

\* The catalogue; no route changes it.
Catalogue ==
  << [_id |-> "m1", Title |-> "Lost",  Genre |-> "Drama",  Director |-> "Ball"],
     [_id |-> "m2", Title |-> "Alien", Genre |-> "Horror", Director |-> "Scott"] >>

TitleParams == {"Lost", "Nope"}
GenreParams == {"Drama", "Nope"}
DirectorParams == {"Ball", "Nope"}

Range(s) == { s[i] : i \in 1..Len(s) }

---------------------------------------------------------------------------
\* Validation chain of POST /users (express-validator)

AlnumChars == {"a", "b", "c", "e", "i", "l", "o", "y", "h", "2"}

\* .isLength({ min: n })
isLength(s, n) == Len(s) >= n

\* .isAlphanumeric(): one or more characters, every one a letter or a digit
isAlphanumeric(s) == Len(s) > 0 /\ \A i \in 1..Len(s) : s[i] \in AlnumChars

\* .isEmpty()
isEmpty(s) == Len(s) = 0

\* .isEmail(): local part, one "@", a domain with an inner dot
isEmail(s) ==
  \E i \in 2..Len(s) :
    /\ s[i] = "@"
    /\ \A k \in 1..Len(s) : s[k] = "@" => k = i
    /\ \E j \in (i + 2)..(Len(s) - 1) : s[j] = "."

MinUserNameLength == 5

\* A fail-fast pipeline: only the first violated rule is reported.
validationResultFirstOnly(body) ==
  IF ~isLength(body.userName, MinUserNameLength) THEN <<"Username is required">>
  ELSE IF ~isAlphanumeric(body.userName)
    THEN <<"Username contains non alphanumeric characters - not allowed.">>
  ELSE IF isEmpty(body.password) THEN <<"Password is required">>
  ELSE IF ~isEmail(body.email) THEN <<"Email does not appear to be valid">>
  ELSE <<>>

\* validationResult(req).array(): one entry per failed chain, in chain order
validationResult(body) ==
  (IF isLength(body.userName, MinUserNameLength) THEN <<>>
   ELSE <<"Username is required">>)
  \o (IF isAlphanumeric(body.userName) THEN <<>>
      ELSE <<"Username contains non alphanumeric characters - not allowed.">>)
  \o (IF ~isEmpty(body.password) THEN <<>> ELSE <<"Password is required">>)
  \o (IF isEmail(body.email) THEN <<>>
      ELSE <<"Email does not appear to be valid">>)

---------------------------------------------------------------------------
\* Collaborators defined outside index.js, and the repository primitives

\* Users.hashPassword (models.js): a one-way digest, never the plaintext.
hashPassword(p) == <<"$2b$10$">> \o p

\* The jwt strategy (passport.js): accepts a credential or rejects it.
Verify(cred) == cred = "valid"

\* The profile update registered without the guard.
ProtectedRoutesNoPut ==
  { "GET /movies", "GET /users", "GET /movies/:title", "GET /users/:Username",
    "GET /genres/:genreName", "GET /directors/:Name",
    "POST /users/:userName/favoriteMovies/:MovieID", "DELETE /users/:userName",
    "GET /users/favorites/:userName", "GET /users/favoriteMovies/:userName" }

\* The routes registered with passport.authenticate("jwt", {session: false}).
ProtectedRoutes ==
  { "GET /movies", "GET /users", "GET /movies/:title", "GET /users/:Username",
    "GET /genres/:genreName", "GET /directors/:Name", "PUT /users/:Username",
    "POST /users/:userName/favoriteMovies/:MovieID", "DELETE /users/:userName",
    "GET /users/favorites/:userName", "GET /users/favoriteMovies/:userName" }

\* passport.authenticate as route middleware: the handler runs only if the
\* route is unguarded or the credential verifies.
Authorized(route, cred) == route \notin ProtectedRoutes \/ Verify(cred)

\* A lookup on a field no document has: it matches nothing.
FindOneIndexNoMatch(us, name) == 0

\* Position of the document findOne({userName: name}) addresses; 0 if none.
FindOneIndex(us, name) ==
  IF \E i \in 1..Len(us) : us[i].userName = name
  THEN CHOOSE i \in 1..Len(us) :
         /\ us[i].userName = name
         /\ \A j \in 1..(i - 1) : us[j].userName # name
  ELSE 0

\* findOne({userName: name}): <<document>>, or <<>> for null
FindOne(us, name) ==
  IF FindOneIndex(us, name) = 0 THEN <<>> ELSE <<us[FindOneIndex(us, name)]>>

\* An update that writes the whole array from the new element alone.
PushClobber(favs, m) == <<m>>

\* $push: append, duplicates kept
Push(favs, m) == Append(favs, m)

\* A pull that removes one occurrence only.
PullFirst(favs, m) ==
  IF \E i \in 1..Len(favs) : favs[i] = m
  THEN LET k == CHOOSE i \in 1..Len(favs) :
                  favs[i] = m /\ \A j \in 1..(i - 1) : favs[j] # m
       IN SubSeq(favs, 1, k - 1) \o SubSeq(favs, k + 1, Len(favs))
  ELSE favs

\* $pull: remove every occurrence
Pull(favs, m) == SelectSeq(favs, LAMBDA x : x # m)

\* findOneAndRemove: the collection without the document at position i
RemoveAt(us, i) == SubSeq(us, 1, i - 1) \o SubSeq(us, i + 1, Len(us))

\* Users.create: the new document, appended
NewUser(id, name, pw, mail) ==
  [_id |-> id, userName |-> name, password |-> pw, email |-> mail,
   FavoriteMovies |-> <<>>]

---------------------------------------------------------------------------
\* Requests and their outcomes

Request(route, cred, name, movie, body) ==
  [route |-> route, cred |-> cred, name |-> name, movie |-> movie, body |-> body]

\* What became of a request: whether its handler ran, the repository calls it
\* made, whether one of them failed, the response sent (status 0: none),
\* whether an exception escaped, and whether the server is done with it.
Outcome(req, handler, calls, failed, status, kind, val, uncaught, done) ==
  [req |-> req, handler |-> handler, calls |-> calls, failed |-> failed,
   status |-> status, kind |-> kind, val |-> val, uncaught |-> uncaught,
   done |-> done]

\* passport's rejection: 401, the handler is not called
Unauthorized(req) ==
  Outcome(req, FALSE, <<>>, FALSE, 401, "text", <<"Unauthorized">>, FALSE, TRUE)

\* the handler's catch / err branch: res.status(500).send("Error: " + err)
Error500(req, calls) ==
  Outcome(req, TRUE, calls, TRUE, 500, "text", <<"Error">>, FALSE, TRUE)

\* a catch whose body throws before send: no response, rejection unhandled
CatchThrows(req, calls) ==
  Outcome(req, TRUE, calls, TRUE, 0, "none", <<>>, TRUE, TRUE)

\* a then-callback that throws a TypeError on null, caught by the catch
TypeError500(req, calls) ==
  Outcome(req, TRUE, calls, FALSE, 500, "text", <<"Error">>, FALSE, TRUE)

\* res.json(doc) for a findOne-style result: the document, or null
JsonDoc(req, calls, doc) ==
  Outcome(req, TRUE, calls, FALSE, 200, IF doc = <<>> THEN "null" ELSE "user",
          doc, FALSE, TRUE)

NoRequest == Request("none", "missing", <<>>, "", <<>>)

---------------------------------------------------------------------------
\* Initial state: an empty Users collection, the catalogue loaded

Init ==
  /\ users = <<>>
  /\ movies = Catalogue
  /\ pending = {}
  /\ nextId = 1
  /\ nreq = 0
  /\ lastOp = <<>>
  /\ last = Outcome(NoRequest, FALSE, <<>>, FALSE, 0, "none", <<>>, FALSE, TRUE)

\* A request arrives: the server has room for it in this run.
Arrive == nreq < MaxRequests /\ nreq' = nreq + 1

---------------------------------------------------------------------------
\* Read routes

\* app.get("/movies")
GetMovies(cred, fail) ==
  LET req == Request("GET /movies", cred, <<>>, "", <<>>) IN
  /\ Arrive
  /\ last' = IF ~Authorized(req.route, cred) THEN Unauthorized(req)
             ELSE IF fail THEN Error500(req, <<"Movies.find">>)
             ELSE Outcome(req, TRUE, <<"Movies.find">>, FALSE, 200, "movies",
                          movies, FALSE, TRUE)
  /\ UNCHANGED <<users, movies, pending, nextId, lastOp>>

\* app.get("/users"): the catch names an undeclared variable
GetUsers(cred, fail) ==
  LET req == Request("GET /users", cred, <<>>, "", <<>>) IN
  /\ Arrive
  /\ last' = IF ~Authorized(req.route, cred) THEN Unauthorized(req)
             ELSE IF fail THEN CatchThrows(req, <<"Users.find">>)
             ELSE Outcome(req, TRUE, <<"Users.find">>, FALSE, 200, "users",
                          users, FALSE, TRUE)
  /\ UNCHANGED <<users, movies, pending, nextId, lastOp>>

\* Movies.findOne on one field: <<movie>>, or <<>> for null
FindMovie(field, value) ==
  LET hit == { i \in 1..Len(movies) : movies[i][field] = value } IN
  IF hit = {} THEN <<>>
  ELSE <<movies[CHOOSE i \in hit : \A j \in hit : i <= j]>>

\* app.get("/movies/:title"): res.json(movie), null included
GetMovieByTitle(cred, title, fail) ==
  LET req == Request("GET /movies/:title", cred, <<>>, title, <<>>)
      movie == FindMovie("Title", title) IN
  /\ Arrive
  /\ last' = IF ~Authorized(req.route, cred) THEN Unauthorized(req)
             ELSE IF fail THEN Error500(req, <<"Movies.findOne">>)
             ELSE Outcome(req, TRUE, <<"Movies.findOne">>, FALSE, 200,
                          IF movie = <<>> THEN "null" ELSE "movie", movie,
                          FALSE, TRUE)
  /\ UNCHANGED <<users, movies, pending, nextId, lastOp>>

\* app.get("/users/:Username"): the catch names an undeclared variable
GetUser(cred, name, fail) ==
  LET req == Request("GET /users/:Username", cred, name, "", <<>>) IN
  /\ Arrive
  /\ last' = IF ~Authorized(req.route, cred) THEN Unauthorized(req)
             ELSE IF fail THEN CatchThrows(req, <<"Users.findOne">>)
             ELSE JsonDoc(req, <<"Users.findOne">>, FindOne(users, name))
  /\ UNCHANGED <<users, movies, pending, nextId, lastOp>>

\* app.get("/genres/:genreName"): movie.Genre throws on null
GetGenre(cred, genreName, fail) ==
  LET req == Request("GET /genres/:genreName", cred, <<>>, genreName, <<>>)
      movie == FindMovie("Genre", genreName) IN
  /\ Arrive
  /\ last' = IF ~Authorized(req.route, cred) THEN Unauthorized(req)
             ELSE IF fail THEN Error500(req, <<"Movies.findOne">>)
             ELSE IF movie = <<>> THEN TypeError500(req, <<"Movies.findOne">>)
             ELSE Outcome(req, TRUE, <<"Movies.findOne">>, FALSE, 200, "genre",
                          <<movie[1].Genre>>, FALSE, TRUE)
  /\ UNCHANGED <<users, movies, pending, nextId, lastOp>>

\* app.get("/directors/:Name"): movie.Director throws on null
GetDirector(cred, dname, fail) ==
  LET req == Request("GET /directors/:Name", cred, <<>>, dname, <<>>)
      movie == FindMovie("Director", dname) IN
  /\ Arrive
  /\ last' = IF ~Authorized(req.route, cred) THEN Unauthorized(req)
             ELSE IF fail THEN Error500(req, <<"Movies.findOne">>)
             ELSE IF movie = <<>> THEN TypeError500(req, <<"Movies.findOne">>)
             ELSE Outcome(req, TRUE, <<"Movies.findOne">>, FALSE, 200,
                          "director", <<movie[1].Director>>, FALSE, TRUE)
  /\ UNCHANGED <<users, movies, pending, nextId, lastOp>>

\* app.get('/users/favorites/:userName') and its twin
\* app.get('/users/favoriteMovies/:userName'): user.FavoriteMovies throws on null
FavoriteListRoutes ==
  {"GET /users/favorites/:userName", "GET /users/favoriteMovies/:userName"}

GetFavorites(route, cred, name, fail) ==
  LET req == Request(route, cred, name, "", <<>>)
      user == FindOne(users, name) IN
  /\ Arrive
  /\ last' = IF ~Authorized(req.route, cred) THEN Unauthorized(req)
             ELSE IF fail THEN Error500(req, <<"Users.findOne">>)
             ELSE IF user = <<>> THEN TypeError500(req, <<"Users.findOne">>)
             ELSE Outcome(req, TRUE, <<"Users.findOne">>, FALSE, 200, "favs",
                          user[1].FavoriteMovies, FALSE, TRUE)
  /\ UNCHANGED <<users, movies, pending, nextId, lastOp>>

---------------------------------------------------------------------------
\* Write routes

NoHistory == [m \in MovieRefs |-> "none"]

\* app.post("/users"), up to the callback of Users.findOne: validation,
\* hashing, the duplicate lookup.  A free name leaves the registration
\* waiting for its Users.create.  The route has no guard and a client that
\* registers holds no credential yet.
PostUsers(body, fail) ==
  LET req == Request("POST /users", "missing", <<>>, "", <<body>>)
      errors == validationResult(body)
      hashedPassword == hashPassword(body.password)
      user == FindOne(users, body.userName) IN
  /\ Arrive
  /\ IF errors # <<>>
     THEN /\ last' = Outcome(req, TRUE, <<>>, FALSE, 422, "errors", errors,
                             FALSE, TRUE)
          /\ UNCHANGED pending
     ELSE IF fail
     THEN /\ last' = Error500(req, <<"Users.findOne">>)
          /\ UNCHANGED pending
     ELSE IF user # <<>>
     THEN /\ last' = Outcome(req, TRUE, <<"Users.findOne">>, FALSE, 400, "text",
                             <<"already exists">>, FALSE, TRUE)
          /\ UNCHANGED pending
     ELSE /\ last' = Outcome(req, TRUE, <<"Users.findOne">>, FALSE, 0, "none",
                             <<>>, FALSE, FALSE)
          /\ pending' = pending \cup
               {[n |-> nreq + 1, req |-> req, hashedPassword |-> hashedPassword]}
  /\ UNCHANGED <<users, movies, nextId, lastOp>>

\* app.post("/users"), the else branch: Users.create and its callbacks
PostUsersCreate(p, fail) ==
  LET user == NewUser(nextId, p.req.body[1].userName, p.hashedPassword,
                      p.req.body[1].email) IN
  /\ p \in pending
  /\ pending' = pending \ {p}
  /\ IF fail
     THEN /\ last' = Error500(p.req, <<"Users.findOne", "Users.create">>)
          /\ UNCHANGED <<users, nextId, lastOp>>
     ELSE /\ users' = Append(users, user)
          /\ nextId' = nextId + 1
          /\ lastOp' = Append(lastOp, NoHistory)
          /\ last' = Outcome(p.req, TRUE, <<"Users.findOne", "Users.create">>,
                             FALSE, 201, "user", <<user>>, FALSE, TRUE)
  /\ UNCHANGED <<movies, nreq>>

\* app.put("/users/:Username"): $set of userName, password, email from the body
PutUser(cred, name, body, fail) ==
  LET req == Request("PUT /users/:Username", cred, name, "", <<body>>)
      i == FindOneIndex(users, name) IN
  /\ Arrive
  /\ IF ~Authorized(req.route, cred)
     THEN last' = Unauthorized(req) /\ UNCHANGED users
     ELSE IF fail
     THEN last' = Error500(req, <<"Users.findOneAndUpdate">>) /\ UNCHANGED users
     ELSE IF i = 0
     THEN /\ last' = JsonDoc(req, <<"Users.findOneAndUpdate">>, <<>>)
          /\ UNCHANGED users
     ELSE /\ users' = [users EXCEPT ![i].userName = body.userName,
                                    ![i].password = body.password,
                                    ![i].email = body.email]
          /\ last' = JsonDoc(req, <<"Users.findOneAndUpdate">>, <<users'[i]>>)
  /\ UNCHANGED <<movies, pending, nextId, lastOp>>

\* app.post("/users/:userName/favoriteMovies/:MovieID"): $push
AddFavorite(cred, name, m, fail) ==
  LET req == Request("POST /users/:userName/favoriteMovies/:MovieID", cred,
                     name, m, <<>>)
      i == FindOneIndex(users, name) IN
  /\ Arrive
  /\ IF ~Authorized(req.route, cred)
     THEN last' = Unauthorized(req) /\ UNCHANGED <<users, lastOp>>
     ELSE IF fail
     THEN /\ last' = Error500(req, <<"Users.findOneAndUpdate">>)
          /\ UNCHANGED <<users, lastOp>>
     ELSE IF i = 0
     THEN /\ last' = JsonDoc(req, <<"Users.findOneAndUpdate">>, <<>>)
          /\ UNCHANGED <<users, lastOp>>
     ELSE /\ users' = [users EXCEPT
                         ![i].FavoriteMovies = Push(users[i].FavoriteMovies, m)]
          /\ lastOp' = [lastOp EXCEPT ![users[i]._id][m] = "add"]
          /\ last' = JsonDoc(req, <<"Users.findOneAndUpdate">>, <<users'[i]>>)
  /\ UNCHANGED <<movies, pending, nextId>>

\* app.delete("/users/:userName"): findOneAndRemove
DeleteUser(cred, name, fail) ==
  LET req == Request("DELETE /users/:userName", cred, name, "", <<>>)
      i == FindOneIndex(users, name) IN
  /\ Arrive
  /\ IF ~Authorized(req.route, cred)
     THEN last' = Unauthorized(req) /\ UNCHANGED <<users, lastOp>>
     ELSE IF fail
     THEN /\ last' = Error500(req, <<"Users.findOneAndRemove">>)
          /\ UNCHANGED <<users, lastOp>>
     ELSE IF i = 0
     THEN /\ last' = Outcome(req, TRUE, <<"Users.findOneAndRemove">>, FALSE,
                             400, "text", <<"was not found">>, FALSE, TRUE)
          /\ UNCHANGED <<users, lastOp>>
     ELSE /\ users' = RemoveAt(users, i)
          /\ lastOp' = [lastOp EXCEPT ![users[i]._id] = NoHistory]
          /\ last' = Outcome(req, TRUE, <<"Users.findOneAndRemove">>, FALSE,
                             200, "text", <<"was deleted">>, FALSE, TRUE)
  /\ UNCHANGED <<movies, pending, nextId>>

\* app.delete("/users/:userName/movies/:title"): $pull, no guard on the route
RemoveFavorite(cred, name, m, fail) ==
  LET req == Request("DELETE /users/:userName/movies/:title", cred, name, m,
                     <<>>)
      i == FindOneIndex(users, name) IN
  /\ Arrive
  /\ IF ~Authorized(req.route, cred)
     THEN last' = Unauthorized(req) /\ UNCHANGED <<users, lastOp>>
     ELSE IF fail
     THEN /\ last' = Error500(req, <<"Users.findOneAndUpdate">>)
          /\ UNCHANGED <<users, lastOp>>
     ELSE IF i = 0
     THEN /\ last' = JsonDoc(req, <<"Users.findOneAndUpdate">>, <<>>)
          /\ UNCHANGED <<users, lastOp>>
     ELSE /\ users' = [users EXCEPT
                         ![i].FavoriteMovies = Pull(users[i].FavoriteMovies, m)]
          /\ lastOp' = [lastOp EXCEPT ![users[i]._id][m] = "remove"]
          /\ last' = JsonDoc(req, <<"Users.findOneAndUpdate">>, <<users'[i]>>)
  /\ UNCHANGED <<movies, pending, nextId>>

---------------------------------------------------------------------------
Next ==
  \/ \E cred \in Credentials, fail \in BOOLEAN : GetMovies(cred, fail)
  \/ \E cred \in Credentials, fail \in BOOLEAN : GetUsers(cred, fail)
  \/ \E cred \in Credentials, t \in TitleParams, fail \in BOOLEAN :
       GetMovieByTitle(cred, t, fail)
  \/ \E cred \in Credentials, name \in NameParams, fail \in BOOLEAN :
       GetUser(cred, name, fail)
  \/ \E cred \in Credentials, g \in GenreParams, fail \in BOOLEAN :
       GetGenre(cred, g, fail)
  \/ \E cred \in Credentials, d \in DirectorParams, fail \in BOOLEAN :
       GetDirector(cred, d, fail)
  \/ \E route \in FavoriteListRoutes, cred \in Credentials, name \in NameParams,
        fail \in BOOLEAN : GetFavorites(route, cred, name, fail)
  \/ \E body \in Bodies, fail \in BOOLEAN : PostUsers(body, fail)
  \/ \E p \in pending, fail \in BOOLEAN : PostUsersCreate(p, fail)
  \/ \E cred \in Credentials, name \in NameParams, body \in UpdateBodies,
        fail \in BOOLEAN : PutUser(cred, name, body, fail)
  \/ \E cred \in Credentials, name \in NameParams, m \in MovieRefs,
        fail \in BOOLEAN : AddFavorite(cred, name, m, fail)
  \/ \E cred \in Credentials, name \in NameParams, fail \in BOOLEAN :
       DeleteUser(cred, name, fail)
  \/ \E cred \in Credentials, name \in NameParams, m \in MovieRefs,
        fail \in BOOLEAN : RemoveFavorite(cred, name, m, fail)

Spec == Init /\ [][Next]_vars

---------------------------------------------------------------------------
\* Properties

\* The documents a response body carries.
ReturnedUsers == IF last.kind \in {"user", "users"} THEN Range(last.val) ELSE {}

\* C1: no stored User record, and no user document returned in a response,
\* has a password equal to a plaintext password a client supplied.
C1_NoPlaintextPassword ==
  /\ \A i \in 1..Len(users) : users[i].password \notin Plaintexts
  /\ \A u \in ReturnedUsers : u.password \notin Plaintexts

\* C2: in every reachable state no two stored User records have the same
\* userName.
C2_UniqueUserNames ==
  \A i, j \in 1..Len(users) : i # j => users[i].userName # users[j].userName

\* The routes C3 lists as protected.
C3Routes ==
  { "GET /movies", "GET /movies/:title", "GET /genres/:genreName",
    "GET /directors/:Name", "GET /users", "GET /users/:Username",
    "GET /users/favorites/:userName", "PUT /users/:Username",
    "POST /users/:userName/favoriteMovies/:MovieID", "DELETE /users/:userName" }

\* C3: a request to one of the listed protected routes that carries no valid
\* bearer credential is answered 401, its handler is not invoked, and Users
\* and Movies are left as they were.
C3_UnauthorizedRejected ==
  [][ (nreq' # nreq /\ last'.req.route \in C3Routes /\ last'.req.cred # "valid")
        => /\ last'.status = 401
           /\ ~last'.handler
           /\ last'.calls = <<>>
           /\ users' = users
           /\ movies' = movies ]_vars

\* C3 witness: a profile update without credential, addressed to a stored
\* user, was turned away.
C3_Witness ==
  /\ last.req.route = "PUT /users/:Username"
  /\ last.req.cred = "missing"
  /\ last.status = 401
  /\ FindOne(users, last.req.name) # <<>>

\* C4: a POST /users whose payload passes validation and whose userName is
\* already stored when the lookup runs is answered 400 (500 only if the
\* lookup itself fails), and Users and the waiting inserts are unchanged.
C4_DuplicateRejected ==
  [][ (/\ nreq' # nreq
       /\ last'.req.route = "POST /users"
       /\ validationResult(last'.req.body[1]) = <<>>
       /\ \E i \in 1..Len(users) :
            users[i].userName = last'.req.body[1].userName)
        => /\ users' = users
           /\ pending' = pending
           /\ ~last'.failed => last'.status = 400
           /\ last'.failed => last'.status = 500 ]_vars

\* C4 witness: a registration for a stored userName was answered 400.
C4_Witness ==
  /\ last.req.route = "POST /users"
  /\ last.status = 400
  /\ \E i \in 1..Len(users) : users[i].userName = last.req.body[1].userName

\* The registration rules and the message each one reports.
ViolatedRules(body) ==
  { r \in { "Username is required",
            "Username contains non alphanumeric characters - not allowed.",
            "Password is required",
            "Email does not appear to be valid" } :
      \/ r = "Username is required" /\ Len(body.userName) < 5
      \/ /\ r = "Username contains non alphanumeric characters - not allowed."
         /\ ~isAlphanumeric(body.userName)
      \/ r = "Password is required" /\ body.password = <<>>
      \/ r = "Email does not appear to be valid" /\ ~isEmail(body.email) }

\* C5: a POST /users whose payload violates at least one registration rule is
\* answered 422 with exactly one entry per violated rule, makes no repository
\* call, and leaves Users and the waiting inserts unchanged.
C5_AllViolationsReported ==
  [][ (/\ nreq' # nreq
       /\ last'.req.route = "POST /users"
       /\ ViolatedRules(last'.req.body[1]) # {})
        => /\ last'.status = 422
           /\ last'.kind = "errors"
           /\ Range(last'.val) = ViolatedRules(last'.req.body[1])
           /\ Len(last'.val) = Cardinality(ViolatedRules(last'.req.body[1]))
           /\ last'.calls = <<>>
           /\ users' = users
           /\ pending' = pending ]_vars

\* C5 witness: a payload breaking several rules got all of them back.
C5_Witness ==
  /\ last.req.route = "POST /users"
  /\ last.status = 422
  /\ Len(last.val) >= 2
  /\ users # <<>>

\* C6: whatever the order in which add-favorite and remove-favorite requests
\* on one user were applied, a reference whose latest applied operation is an
\* add is in that user's FavoriteMovies and one whose latest applied
\* operation is a remove is not.
C6_NoLostUpdate ==
  \A i \in 1..Len(users) : \A m \in MovieRefs :
    /\ lastOp[users[i]._id][m] = "add"
         => m \in Range(users[i].FavoriteMovies)
    /\ lastOp[users[i]._id][m] = "remove"
         => m \notin Range(users[i].FavoriteMovies)

\* C6 witness: one user has taken adds and removes of both references, one
\* ending added and the other removed.
C6_Witness ==
  \E i \in 1..Len(users) : \E m, k \in MovieRefs :
    /\ lastOp[users[i]._id][m] = "add"
    /\ lastOp[users[i]._id][k] = "remove"
    /\ m \in Range(users[i].FavoriteMovies)

AddRoute == "POST /users/:userName/favoriteMovies/:MovieID"
RemoveRoute == "DELETE /users/:userName/movies/:title"

\* The set list-favorites would report for a userName.
Listed(us, name) ==
  IF FindOne(us, name) = <<>> THEN {} ELSE Range(FindOne(us, name)[1].FavoriteMovies)

\* C7: after an add-favorite of m applied to an existing user, list-favorites
\* of that user contains m; after a remove-favorite of m, the returned record
\* and list-favorites do not contain m, however often m had been added; an
\* add or remove of another reference leaves the membership of m as it was;
\* and list-favorites answers with the stored FavoriteMovies.
C7_AddRemovePair ==
  [][ (nreq' # nreq /\ last'.handler /\ ~last'.failed
       /\ FindOne(users, last'.req.name) # <<>>)
        => /\ last'.req.route = AddRoute
                => last'.req.movie \in Listed(users', last'.req.name)
           /\ last'.req.route = RemoveRoute
                => /\ last'.req.movie \notin Listed(users', last'.req.name)
                   /\ last'.req.movie \notin Range(last'.val[1].FavoriteMovies)
           /\ last'.req.route \in {AddRoute, RemoveRoute}
                => \A m \in MovieRefs \ {last'.req.movie} :
                     m \in Listed(users', last'.req.name)
                       <=> m \in Listed(users, last'.req.name)
           /\ last'.req.route \in FavoriteListRoutes
                => /\ last'.status = 200
                   /\ last'.val = FindOne(users, last'.req.name)[1].FavoriteMovies
          ]_vars

\* C7 witness: a remove of one reference was answered with a record that
\* still holds the other reference, added before it.
C7_Witness ==
  /\ last.req.route = RemoveRoute
  /\ last.kind = "user"
  /\ lastOp[last.val[1]._id][last.req.movie] = "remove"
  /\ \E m \in MovieRefs \ {last.req.movie} :
       /\ lastOp[last.val[1]._id][m] = "add"
       /\ m \in Range(last.val[1].FavoriteMovies)
       /\ m \in Listed(users, last.req.name)

\* C8: a request whose repository call failed gets exactly one response, with
\* status 500, and no exception escapes its handler.
C8_FailureAnswered500 ==
  (last.done /\ last.failed) => (last.status = 500 /\ ~last.uncaught)

\* C9: add-favorite, remove-favorite and list-favorites addressed to a
\* userName no stored User has answer with an outcome that is neither a
\* success (200 with a user record or a favourites list) nor the
\* repository-failure response (500).
C9_NotFoundDistinct ==
  (/\ last.req.route \in {AddRoute, RemoveRoute} \cup FavoriteListRoutes
   /\ last.handler
   /\ ~last.failed
   /\ FindOne(users, last.req.name) = <<>>)
    => /\ last.status # 500
       /\ ~(last.status = 200 /\ last.kind \in {"user", "favs"})

\* C10: a request without a valid bearer credential changes no existing User
\* record (it may only create a new one).
C10_UnauthenticatedChangesNothing ==
  [][ last'.req.cred # "valid"
        => \A i \in 1..Len(users) :
             \E j \in 1..Len(users') : users'[j] = users[i] ]_vars

====
